---- MODULE Spec2Model ----
(***************************************************************************)
(* Model of the Cloudflare multi-endpoint ETL connector                    *)
(* (src/etl_connector.py): the HTTP fetcher make_request, the three        *)
(* extractors, the transformers, the loaders, run_etl_pipeline and main.   *)
(*                                                                         *)
(* Text is a sequence of symbols (one-symbol strings); a Python dict is a  *)
(* function from keys to values; a value that may be None is a record with *)
(* a kind field.                                                           *)
(***************************************************************************)
EXTENDS Integers, Sequences, FiniteSets, TLC

(***************************************************************************)
(* Bounds of the model                                                     *)
(***************************************************************************)
MaxRetry == 3        \* RETRY_ATTEMPTS is drawn from 0..MaxRetry when an extractor
                     \* or make_request is called directly
MaxDomains == 2      \* longest domain list handed to extract_doh_data directly
MaxIter == 2         \* largest test_iterations handed to extract_speed_data directly
MaxRunRetry == 2     \* RETRY_ATTEMPTS is drawn from 0..MaxRunRetry in a pipeline run
MaxRunItems == 1     \* longest domain list and largest speed_iterations of a pipeline run
MaxClock == 1        \* datetime.now() takes the values 0..MaxClock
MaxText == 5         \* longest response text handed to the trace decoder
MaxStatus == 6       \* largest DNS status code handed to transform_doh_data
MaxLoads == 2        \* number of loader calls in a sequence of direct calls

(***************************************************************************)
(* Values                                                                  *)
(***************************************************************************)
None == [kind |-> "None"]

IsNone(v) == v.kind = "None"

\* dict.get(key, default)
Get(d, k, default) == IF k \in DOMAIN d THEN d[k] ELSE default

\* d[k] = v on a dict
Put(d, k, v) == (k :> v) @@ d

Min(a, b) == IF a <= b THEN a ELSE b

\* the outcomes of one requests.get / requests.post
Outcomes == {"200", "429", "500", "timeout", "connerr"}

(***************************************************************************)
(* Response bodies the three upstream endpoints can send with status 200   *)
(***************************************************************************)
\* /cdn-cgi/trace answers line-delimited key=value text
TraceBodies ==
    { <<"ip", "=", "1.1.1.1", "\n", "warp", " ", "=", " ", "on", "=", "x", "\n",
        "junk", "\n">>,
      <<"junk", "\n">>,
      <<>> }

\* what response.json() makes of a DNS-over-HTTPS body
DohBodies ==
    { [json |-> "invalid"],
      [json |-> "array"],
      [json |-> "object",
       obj |-> [Status |-> 0, TC |-> FALSE, RD |-> TRUE, RA |-> TRUE, AD |-> FALSE,
                Question |-> <<[name |-> "q", type |-> 1]>>,
                Answer |-> <<[name |-> "q", type |-> 1, TTL |-> 60, data |-> "1.2.3.4"]>>]],
      [json |-> "object", obj |-> [Status |-> 3]],
      [json |-> "object", obj |-> [Status |-> 0, Question |-> <<>>]] }

\* len(response.content) and the elapsed time (ms) of one speed test download
SpeedBodies ==
    { [size |-> 100000, elapsed_ms |-> 100],
      [size |-> 100000, elapsed_ms |-> 400],
      [size |-> 100000, elapsed_ms |-> 0] }

BodiesOf(url) ==
    CASE url = "trace" -> TraceBodies
      [] url = "doh" -> DohBodies
      [] url = "speed" -> SpeedBodies

(***************************************************************************)
(* Key=value decoding of the trace response (extract_trace_data)           *)
(***************************************************************************)
IsSpace(c) == c \in {" ", "\t", "\n", "\r"}

RECURSIVE LStrip(_)
LStrip(s) == IF s # <<>> /\ IsSpace(Head(s)) THEN LStrip(Tail(s)) ELSE s

RECURSIVE RStrip(_)
RStrip(s) ==
    IF s # <<>> /\ IsSpace(s[Len(s)]) THEN RStrip(SubSeq(s, 1, Len(s) - 1)) ELSE s

\* str.strip()
Strip(s) == RStrip(LStrip(s))

\* position of the first c in s, 0 when there is none (str.find + 1)
RECURSIVE Find(_, _, _)
Find(s, c, i) ==
    IF i > Len(s) THEN 0
    ELSE IF s[i] = c THEN i
    ELSE Find(s, c, i + 1)

\* str.split(sep): always at least one (possibly empty) piece
RECURSIVE Split(_, _)
Split(s, sep) ==
    LET i == Find(s, sep, 1)
    IN  IF i = 0 THEN <<s>>
        ELSE <<SubSeq(s, 1, i - 1)>> \o Split(SubSeq(s, i + 1, Len(s)), sep)

\* a variant that splits at the last '=' of the line
EqAtLast(line) ==
    IF \A i \in 1..Len(line) : line[i] # "=" THEN 0
    ELSE CHOOSE i \in 1..Len(line) :
            line[i] = "=" /\ \A j \in (i + 1)..Len(line) : line[j] # "="

\* where line.split('=', 1) cuts: the first '=', 0 when there is none (line 162-163)
EqAt(line) == Find(line, "=", 1)

\* the loop body of lines 161-164 applied to the lines in order
RECURSIVE ParseLines(_, _)
ParseLines(lines, d) ==
    IF lines = <<>> THEN d
    ELSE LET line == Head(lines)
             i == EqAt(line)
         IN  IF i # 0
             THEN ParseLines(Tail(lines),
                             Put(d, Strip(SubSeq(line, 1, i - 1)),
                                    Strip(SubSeq(line, i + 1, Len(line)))))
             ELSE ParseLines(Tail(lines), d)

ParseTrace(text) == ParseLines(Split(Strip(text), "\n"), <<>>)

(***************************************************************************)
(* Transformers (pure)                                                     *)
(***************************************************************************)
\* a dict key / string literal of one symbol
K(sym) == <<sym>>

\* a variant that returns the analytic fields without the provenance fields
transform_trace_data_bare(raw_data, t) ==
    [_id |-> <<"trace", t>>,
     ip_address |-> Get(raw_data, K("ip"), K("unknown")),
     timestamp |-> Get(raw_data, K("ts"), <<>>),
     visit_scheme |-> Get(raw_data, K("visit_scheme"), <<>>),
     user_agent |-> Get(raw_data, K("uag"), <<>>),
     colo |-> Get(raw_data, K("colo"), <<>>),
     http_version |-> Get(raw_data, K("http"), <<>>),
     location |-> Get(raw_data, K("loc"), <<>>),
     tls_version |-> Get(raw_data, K("tls"), <<>>),
     sni |-> Get(raw_data, K("sni"), <<>>),
     warp |-> Get(raw_data, K("warp"), K("off")),
     gateway |-> Get(raw_data, K("gateway"), K("off"))]

\* transform_trace_data (lines 173-207); t is datetime.now()
transform_trace_data(raw_data, t) ==
    [_id |-> <<"trace", t>>,
     ip_address |-> Get(raw_data, K("ip"), K("unknown")),
     timestamp |-> Get(raw_data, K("ts"), <<>>),
     visit_scheme |-> Get(raw_data, K("visit_scheme"), <<>>),
     user_agent |-> Get(raw_data, K("uag"), <<>>),
     colo |-> Get(raw_data, K("colo"), <<>>),
     http_version |-> Get(raw_data, K("http"), <<>>),
     location |-> Get(raw_data, K("loc"), <<>>),
     tls_version |-> Get(raw_data, K("tls"), <<>>),
     sni |-> Get(raw_data, K("sni"), <<>>),
     warp |-> Get(raw_data, K("warp"), K("off")),
     gateway |-> Get(raw_data, K("gateway"), K("off")),
     ingestion_timestamp |-> t,
     etl_version |-> "2.0",
     source_api |-> "Cloudflare Trace",
     raw_data |-> raw_data]

\* a variant whose table lacks the entry of code 5
get_dns_response_code_short(status) ==
    CASE status = 0 -> "NOERROR"
      [] status = 1 -> "FORMERR"
      [] status = 2 -> "SERVFAIL"
      [] status = 3 -> "NXDOMAIN"
      [] status = 4 -> "NOTIMP"
      [] OTHER -> "UNKNOWN"

\* _get_dns_response_code (lines 326-336)
get_dns_response_code(status) ==
    CASE status = 0 -> "NOERROR"
      [] status = 1 -> "FORMERR"
      [] status = 2 -> "SERVFAIL"
      [] status = 3 -> "NXDOMAIN"
      [] status = 4 -> "NOTIMP"
      [] status = 5 -> "REFUSED"
      [] OTHER -> "UNKNOWN"

\* the answer records of one raw DNS result (lines 294-301)
DohAnswers(raw_data) ==
    LET ans == Get(raw_data, "Answer", <<>>)
    IN  [j \in 1..Len(ans) |->
            [name |-> Get(ans[j], "name", ""),
             type |-> Get(ans[j], "type", 0),
             ttl |-> Get(ans[j], "TTL", 0),
             data |-> Get(ans[j], "data", "")]]

\* raw_data.get('Question', [{}]) (line 306)
DohQuestion(raw_data) == Get(raw_data, "Question", << <<>> >>)

\* a variant that writes a marker into the raw result it was given
DohDocTagging(raw_data, t) ==
    LET domain == Get(raw_data, "queried_domain", "unknown")
        answers == DohAnswers(raw_data)
    IN  [_id |-> <<"dns", domain, t>>,
         query_name |-> domain,
         query_type |-> Get(DohQuestion(raw_data)[1], "type", 1),
         status |-> Get(raw_data, "Status", -1),
         response_code |-> get_dns_response_code(Get(raw_data, "Status", -1)),
         answers |-> answers,
         answer_count |-> Len(answers),
         truncated |-> Get(raw_data, "TC", FALSE),
         recursion_desired |-> Get(raw_data, "RD", FALSE),
         recursion_available |-> Get(raw_data, "RA", FALSE),
         authenticated_data |-> Get(raw_data, "AD", FALSE),
         ingestion_timestamp |-> t,
         etl_version |-> "2.0",
         source_api |-> "Cloudflare DoH",
         raw_data |-> Put(raw_data, "transformed", TRUE)]

\* the document of one raw DNS result (lines 291-319)
DohDoc(raw_data, t) ==
    LET domain == Get(raw_data, "queried_domain", "unknown")
        answers == DohAnswers(raw_data)
    IN  [_id |-> <<"dns", domain, t>>,
         query_name |-> domain,
         query_type |-> Get(DohQuestion(raw_data)[1], "type", 1),
         status |-> Get(raw_data, "Status", -1),
         response_code |-> get_dns_response_code(Get(raw_data, "Status", -1)),
         answers |-> answers,
         answer_count |-> Len(answers),
         truncated |-> Get(raw_data, "TC", FALSE),
         recursion_desired |-> Get(raw_data, "RD", FALSE),
         recursion_available |-> Get(raw_data, "RA", FALSE),
         authenticated_data |-> Get(raw_data, "AD", FALSE),
         ingestion_timestamp |-> t,
         etl_version |-> "2.0",
         source_api |-> "Cloudflare DoH",
         raw_data |-> raw_data]

\* [0] on an empty Question list raises IndexError (line 306)
DohRaises(raw_data) == Len(DohQuestion(raw_data)) = 0

\* transform_doh_data (lines 275-324): the list of documents, or the
\* exception that leaves the function
transform_doh_data(raw_data_list, t) ==
    IF \E i \in 1..Len(raw_data_list) : DohRaises(raw_data_list[i])
    THEN [kind |-> "raise"]
    ELSE [kind |-> "list",
          val |-> [i \in 1..Len(raw_data_list) |-> DohDoc(raw_data_list[i], t)]]

\* round(n / d) to the nearest integer, ties to even (Python round)
RoundDiv(n, d) ==
    LET q == n \div d
        r == n % d
    IN  IF 2 * r < d THEN q
        ELSE IF 2 * r > d THEN q + 1
        ELSE IF q % 2 = 0 THEN q ELSE q + 1

\* speeds are kept in thousandths of a Mbps, times in milliseconds
\* round(n / d, 2) of a speed n / d: the nearest multiple of 0.01 Mbps
Round2(n, d) == 10 * RoundDiv(n, d * 10)

\* speed_mbps of one download (lines 391-399); elapsed_ms > 0
SpeedOf(size, elapsed_ms) == Round2(size * 8, elapsed_ms)

RECURSIVE SumSeq(_)
SumSeq(q) == IF q = <<>> THEN 0 ELSE Head(q) + SumSeq(Tail(q))

\* a variant that takes the first sample for the slowest
SeqFirst(q) == q[1]

\* min(speeds) (line 434)
SeqMin(q) == CHOOSE x \in {q[i] : i \in 1..Len(q)} : \A i \in 1..Len(q) : x <= q[i]

SeqMax(q) == CHOOSE x \in {q[i] : i \in 1..Len(q)} : \A i \in 1..Len(q) : x >= q[i]

\* a variant that also gives up on a single sample
NoSamplesOrOne(raw_data_list) == Len(raw_data_list) <= 1

\* if not raw_data_list (line 429)
NoSamples(raw_data_list) == Len(raw_data_list) = 0

\* transform_speed_data (lines 414-454)
transform_speed_data(raw_data_list, t) ==
    IF NoSamples(raw_data_list) THEN None
    ELSE LET speeds == [i \in 1..Len(raw_data_list) |-> raw_data_list[i].speed_mbps]
         IN  [kind |-> "doc",
              val |-> [_id |-> <<"speed", t>>,
                       test_timestamp |-> t,
                       test_count |-> Len(raw_data_list),
                       average_speed_mbps |-> Round2(SumSeq(speeds), Len(speeds)),
                       min_speed_mbps |-> Round2(SeqMin(speeds), 1),
                       max_speed_mbps |-> Round2(SeqMax(speeds), 1),
                       speed_variance |-> Round2(SeqMax(speeds) - SeqMin(speeds), 1),
                       individual_tests |-> raw_data_list,
                       ingestion_timestamp |-> t,
                       etl_version |-> "2.0",
                       source_api |-> "Cloudflare Speed Test",
                       raw_data |-> raw_data_list]]

(***************************************************************************)
(* Loaders on one collection (a sequence of documents with unique _id)     *)
(***************************************************************************)
HasId(docs, id) == \E i \in 1..Len(docs) : docs[i]._id = id

\* a variant that replaces the stored document of the same _id (an upsert)
InsertOneReplace(docs, doc) ==
    IF HasId(docs, doc._id)
    THEN [i \in 1..Len(docs) |-> IF docs[i]._id = doc._id THEN doc ELSE docs[i]]
    ELSE Append(docs, doc)

\* collection.insert_one: a duplicate _id raises and stores nothing
InsertOne(docs, doc) == IF HasId(docs, doc._id) THEN docs ELSE Append(docs, doc)

\* collection.insert_many (ordered): stops at the first duplicate _id
RECURSIVE InsertMany(_, _)
InsertMany(docs, batch) ==
    IF batch = <<>> \/ HasId(docs, Head(batch)._id) THEN docs
    ELSE InsertMany(Append(docs, Head(batch)), Tail(batch))

\* whether insert_many stored the whole batch
InsertedAll(docs, batch) == Len(InsertMany(docs, batch)) = Len(docs) + Len(batch)

\* truth value of an extractor result (if trace_data: / if doh_data:)
Truthy(v) ==
    CASE v.kind = "None" -> FALSE
      [] v.kind = "dict" -> DOMAIN v.val # {}
      [] v.kind = "list" -> Len(v.val) > 0
      [] OTHER -> TRUE

(***************************************************************************)
(* State                                                                   *)
(***************************************************************************)
VARIABLES
    entry,            \* the entry point that was called
    retry_attempts,   \* self.retry_attempts
    include_trace, include_doh, include_speed, dns_domains, speed_iterations,
                      \* the arguments of run_etl_pipeline
    pc,               \* position in main / run_etl_pipeline / the extractors
    client,           \* self.client: "none", "open" or "closed"
    success,          \* the local success of run_etl_pipeline
    mr,               \* the running make_request call
    outcomes,         \* history: outcomes of the attempts of a direct make_request call
    http_total,       \* history: HTTP requests issued since the entry point was called
    trail,            \* history: the stages started and finished, in order
    idx,              \* loop position of extract_doh_data / extract_speed_data
    domain_list,      \* the list extract_doh_data iterates over
    results,          \* dns_results / speed_results being collected
    item_log,         \* history: what happened to each item of the running extraction
    data,             \* trace_data / doh_data / speed_data, then the transformed value
    clock,            \* the last value datetime.now() returned
    store,            \* the documents of the three collections
    opens,            \* history: number of MongoClient instances created
    connect_ret,      \* history: what connect_mongodb returned: "none", "True", "False"
    late_use,         \* history: a collection was used after the client was closed
    summary,          \* history: "none", or _print_summary was called and "emitted"
                      \* the collection statistics or logged an "error"
    run_result,       \* how run_etl_pipeline ended: "none", "True", "False", "raised"
    interrupted,      \* history: a KeyboardInterrupt was delivered
    exit_code         \* exit code of the process, -1 while it runs

vars == <<entry, retry_attempts, include_trace, include_doh, include_speed,
          dns_domains, speed_iterations, pc, client, success, mr, outcomes,
          http_total, trail, idx, domain_list, results, item_log, data, clock,
          store, opens, connect_ret, late_use, summary, run_result, interrupted,
          exit_code>>

config == <<entry, retry_attempts, include_trace, include_doh, include_speed,
            dns_domains, speed_iterations>>

storage == <<client, store, opens, connect_ret, late_use>>

pipeline == <<pc, success, trail, idx, domain_list, results, item_log, data, clock,
              summary, run_result, interrupted, exit_code>>

(***************************************************************************)
(* make_request (lines 102-139)                                            *)
(***************************************************************************)
Urls == {"trace", "doh", "speed"}

MrIdle == [pc |-> "idle"]

\* the call self.make_request(url): the for loop is about to start
MrStart(url) ==
    [pc |-> "loop", url |-> url, attempt |-> 0, n_req |-> 0, last |-> "none",
     waits |-> 0, result |-> None]

Response(b) == [kind |-> "Response", status_code |-> 200, body |-> b]

\* a variant whose loop runs once more than configured
BudgetPlusOne(r) == r + 1

\* number of iterations of the loop: range(self.retry_attempts) (line 116)
Budget(r) == r

\* a variant in which a rate-limited answer does not advance the loop
AfterAttemptFree(attempt, o) == IF o = "429" THEN attempt ELSE attempt + 1

\* value of the loop variable after an iteration that did not return (line 116)
AfterAttempt(attempt, o) == attempt + 1

\* a variant whose rate-limit branch skips the rest of the iteration
WaitsOfEither(attempt, o) ==
    IF o = "429" THEN 1 ELSE IF attempt < retry_attempts - 1 THEN 1 ELSE 0

\* number of time.sleep(retry_delay) calls of an iteration that did not
\* return: line 127 after a 429, line 137 unless it was the last iteration
WaitsOf(attempt, o) ==
    (IF o = "429" THEN 1 ELSE 0) + (IF attempt < retry_attempts - 1 THEN 1 ELSE 0)

\* one iteration of the for loop: one HTTP request and what follows it
MR_Attempt ==
    /\ mr.pc = "loop"
    /\ mr.attempt < Budget(retry_attempts)
    /\ \E o \in Outcomes :
          /\ IF o = "200"
             THEN \E b \in BodiesOf(mr.url) :
                    mr' = [mr EXCEPT !.pc = "ret", !.n_req = @ + 1, !.last = o,
                                     !.waits = 0, !.result = Response(b)]
             ELSE mr' = [mr EXCEPT !.attempt = AfterAttempt(@, o), !.n_req = @ + 1,
                                   !.last = o, !.waits = WaitsOf(mr.attempt, o)]
          /\ outcomes' = IF entry = "fetch" THEN Append(outcomes, o) ELSE outcomes
    /\ http_total' = http_total + 1
    /\ UNCHANGED <<config, storage, pipeline>>

\* the for loop is over: return None (line 139)
MR_Exhausted ==
    /\ mr.pc = "loop"
    /\ mr.attempt >= Budget(retry_attempts)
    /\ mr' = [mr EXCEPT !.pc = "ret", !.result = None]
    /\ UNCHANGED <<config, storage, pipeline, outcomes, http_total>>

(***************************************************************************)
(* Shared pieces of the extractors and of run_etl_pipeline                 *)
(***************************************************************************)
InRun == entry \in {"main", "run"}

Event(src, stage, ok) == [src |-> src, stage |-> stage, ok |-> ok]

\* where control goes when run_etl_pipeline returns / raises
ReturnTarget == IF entry = "main" THEN "main_after" ELSE "done"

RaiseTarget == IF entry = "main" THEN "main_except" ELSE "done"

\* where control goes after a stage: on to the next stage inside
\* run_etl_pipeline, back to the caller when the method was called directly
AfterStage(next) == IF InRun THEN next ELSE "done"

\* a variant that tests the extractor's result with "is not None"
HasDataNotNone(ret) == ~IsNone(ret)

\* if trace_data: / if doh_data: / if speed_data: (lines 512, 524, 536)
HasData(ret) == Truthy(ret)

\* longest item list of this entry point
ItemBound == IF InRun THEN MaxRunItems ELSE MaxDomains

Bounded(list, n) == SubSeq(list, 1, Min(Len(list), n))

\* the default of extract_doh_data (line 245) and the list main passes (line 593)
DefaultDomains ==
    <<"google.com", "github.com", "cloudflare.com", "amazon.com", "microsoft.com">>

\* the locals of run_etl_pipeline and of the extractors die with their frames
DropFrames ==
    /\ mr' = MrIdle
    /\ idx' = 0
    /\ domain_list' = <<>>
    /\ results' = <<>>
    /\ item_log' = <<>>
    /\ data' = None
    /\ success' = TRUE

(***************************************************************************)
(* connect_mongodb (lines 77-100) and the abort of lines 502-504           *)
(***************************************************************************)
ConnectOutcomes == {"ok", "no_server", "no_client"}

\* self.client after connect_mongodb: MongoClient(...) itself failed, or the
\* client exists (ping or create_index may still have failed)
ClientAfterConnect(c, o) == IF o = "no_client" THEN c ELSE "open"

\* a variant of run_etl_pipeline without the abort of lines 502-504
AfterConnectNoAbort(o) == "trace"

\* where run_etl_pipeline continues after connect_mongodb (lines 502-506)
AfterConnect(o) == IF o = "ok" THEN "trace" ELSE ReturnTarget

Connect ==
    /\ pc = "connect"
    /\ \E o \in ConnectOutcomes :
          /\ client' = ClientAfterConnect(client, o)
          /\ opens' = IF o = "no_client" THEN opens ELSE opens + 1
          /\ connect_ret' = IF o = "ok" THEN "True" ELSE "False"
          /\ pc' = AfterConnect(o)
          /\ run_result' = IF AfterConnect(o) = "trace" THEN run_result ELSE "False"
    /\ UNCHANGED <<config, success, mr, outcomes, http_total, trail, idx, domain_list,
                   results, item_log, data, clock, store, late_use, summary,
                   interrupted, exit_code>>

(***************************************************************************)
(* Storing documents (load_trace_data, load_doh_data, load_speed_data)     *)
(***************************************************************************)
\* the try block of a loader: fault is a storage error raised by the driver
\* before anything was written; the loader returns ok
\* a variant of run_etl_pipeline that ignores what the loader returned
SuccessAfterIgnored(s, ok) == s

\* success after a loader returned ok (lines 514-515, 526-527, 538-539)
SuccessAfter(s, ok) == IF ok THEN s ELSE FALSE

Load(c, src, after, ok, next) ==
    \E fault \in BOOLEAN :
        /\ store' = IF fault THEN store ELSE [store EXCEPT ![c] = after]
        /\ success' = SuccessAfter(success, ok /\ ~fault)
        /\ trail' = Append(trail, Event(src, "load", ok /\ ~fault))
        /\ late_use' = (late_use \/ client # "open")
        /\ pc' = AfterStage(next)
        /\ UNCHANGED <<config, client, opens, connect_ret, mr, outcomes, http_total,
                       idx, domain_list, results, item_log, data, clock, summary,
                       run_result, interrupted, exit_code>>

(***************************************************************************)
(* Endpoint 1: trace (lines 145-228, 508-518)                              *)
(***************************************************************************)
RunTrace ==
    /\ pc = "trace"
    /\ pc' = IF include_trace THEN "trace_start" ELSE "doh"
    /\ UNCHANGED <<config, storage, success, mr, outcomes, http_total, trail, idx,
                   domain_list, results, item_log, data, clock, summary, run_result,
                   interrupted, exit_code>>

\* extract_trace_data up to the call of make_request (line 153)
TraceCall ==
    /\ pc = "trace_start"
    /\ mr' = MrStart("trace")
    /\ trail' = Append(trail, Event("trace", "extract", TRUE))
    /\ pc' = "trace_wait"
    /\ UNCHANGED <<config, storage, success, outcomes, http_total, idx, domain_list,
                   results, item_log, data, clock, summary, run_result, interrupted,
                   exit_code>>

\* a variant that answers a failed fetch with an empty mapping
TraceResultNeverNone(response) ==
    IF IsNone(response) THEN [kind |-> "dict", val |-> <<>>]
    ELSE [kind |-> "dict", val |-> ParseTrace(response.body)]

\* what extract_trace_data returns for the result of make_request (lines 155-167)
TraceResult(response) ==
    IF IsNone(response) THEN None
    ELSE [kind |-> "dict", val |-> ParseTrace(response.body)]

\* extract_trace_data returns; run_etl_pipeline tests the result (line 512)
TraceReturn ==
    /\ pc = "trace_wait"
    /\ mr.pc = "ret"
    /\ LET ret == TraceResult(mr.result)
       IN  /\ data' = ret
           /\ item_log' = <<[item |-> "trace", got |-> mr.result,
                             outcome |-> IF IsNone(mr.result) THEN "failed" ELSE "ok"]>>
           /\ trail' = Append(trail, Event("trace", "extracted", Truthy(ret)))
           /\ IF ~InRun THEN pc' = "done" /\ success' = success
              ELSE IF HasData(ret) THEN pc' = "trace_transform" /\ success' = success
              ELSE pc' = "doh" /\ success' = FALSE
    /\ mr' = MrIdle
    /\ UNCHANGED <<config, storage, outcomes, http_total, idx, domain_list, results,
                   clock, summary, run_result, interrupted, exit_code>>

TraceTransform ==
    /\ pc = "trace_transform"
    /\ \E t \in clock..MaxClock :
          /\ clock' = t
          /\ data' = [kind |-> "doc", val |-> transform_trace_data(data.val, t)]
    /\ trail' = Append(trail, Event("trace", "transform", TRUE))
    /\ pc' = AfterStage("trace_load")
    /\ UNCHANGED <<config, storage, success, mr, outcomes, http_total, idx,
                   domain_list, results, item_log, summary, run_result, interrupted,
                   exit_code>>

TraceLoad ==
    /\ pc = "trace_load"
    /\ LET c == "cloudflare_trace_raw"
       IN  Load(c, "trace", InsertOne(store[c], data.val),
                ~HasId(store[c], data.val._id), "doh")

(***************************************************************************)
(* Endpoint 2: DNS over HTTPS (lines 234-360, 520-530)                     *)
(***************************************************************************)
RunDoh ==
    /\ pc = "doh"
    /\ pc' = IF include_doh THEN "doh_start" ELSE "speed"
    /\ UNCHANGED <<config, storage, success, mr, outcomes, http_total, trail, idx,
                   domain_list, results, item_log, data, clock, summary, run_result,
                   interrupted, exit_code>>

\* extract_doh_data before its loop (lines 244-250)
DohStart ==
    /\ pc = "doh_start"
    /\ domain_list' = IF IsNone(dns_domains) THEN Bounded(DefaultDomains, ItemBound)
                      ELSE dns_domains.val
    /\ results' = <<>>
    /\ item_log' = <<>>
    /\ idx' = 1
    /\ trail' = Append(trail, Event("doh", "extract", TRUE))
    /\ pc' = "doh_loop"
    /\ UNCHANGED <<config, storage, success, mr, outcomes, http_total, data, clock,
                   summary, run_result, interrupted, exit_code>>

\* a variant of the loops that gives up at the first item whose fetch failed
NextItemOrStop(i, o, n) == IF o = "failed" THEN n + 1 ELSE i + 1

\* the loop of lines 252 / 380 goes on to the next item whatever happened
NextItem(i, o, n) == i + 1

LogEntry(item, o, response) ==
    [item |-> item, outcome |-> o, slept |-> o # "error", got |-> response]

\* the next domain is queried (lines 252-259)
DohQuery ==
    /\ pc = "doh_loop"
    /\ idx <= Len(domain_list)
    /\ mr' = MrStart("doh")
    /\ pc' = "doh_wait"
    /\ UNCHANGED <<config, storage, success, outcomes, http_total, trail, idx,
                   domain_list, results, item_log, data, clock, summary, run_result,
                   interrupted, exit_code>>

\* what one domain adds to dns_results (lines 261-270): nothing when the
\* fetch failed, nothing when response.json() or the item assignment raised
DohItemOutcome(response) ==
    IF IsNone(response) THEN "failed"
    ELSE IF response.body.json = "object" THEN "ok"
    ELSE "error"

\* the rest of the loop body for one domain (lines 261-270)
DohItem ==
    /\ pc = "doh_wait"
    /\ mr.pc = "ret"
    /\ LET domain == domain_list[idx]
           o == DohItemOutcome(mr.result)
       IN  /\ results' = IF o = "ok"
                         THEN Append(results, Put(mr.result.body.obj, "queried_domain", domain))
                         ELSE results
           /\ item_log' = Append(item_log, LogEntry(domain, o, mr.result))
           /\ idx' = NextItem(idx, o, Len(domain_list))
    /\ mr' = MrIdle
    /\ pc' = "doh_loop"
    /\ UNCHANGED <<config, storage, success, outcomes, http_total, trail, domain_list,
                   data, clock, summary, run_result, interrupted, exit_code>>

\* extract_doh_data returns dns_results; run_etl_pipeline tests it (line 524)
DohReturn ==
    /\ pc = "doh_loop"
    /\ idx > Len(domain_list)
    /\ LET ret == [kind |-> "list", val |-> results]
       IN  /\ data' = ret
           /\ trail' = Append(trail, Event("doh", "extracted", Truthy(ret)))
           /\ IF ~InRun THEN pc' = "done" /\ success' = success
              ELSE IF HasData(ret) THEN pc' = "doh_transform" /\ success' = success
              ELSE pc' = "speed" /\ success' = FALSE
    /\ UNCHANGED <<config, storage, mr, outcomes, http_total, idx, domain_list,
                   results, item_log, clock, summary, run_result, interrupted,
                   exit_code>>

\* transform_doh_data; its exception leaves run_etl_pipeline (no handler)
DohTransform ==
    /\ pc = "doh_transform"
    /\ \E t \in clock..MaxClock :
          /\ clock' = t
          /\ LET out == transform_doh_data(data.val, t)
             IN  IF out.kind = "raise"
                 THEN /\ DropFrames
                      /\ trail' = Append(trail, Event("doh", "transform", FALSE))
                      /\ run_result' = "raised"
                      /\ pc' = RaiseTarget
                 ELSE /\ data' = out
                      /\ trail' = Append(trail, Event("doh", "transform", TRUE))
                      /\ pc' = AfterStage("doh_load")
                      /\ UNCHANGED <<mr, idx, domain_list, results, item_log, success,
                                     run_result>>
    /\ UNCHANGED <<config, storage, outcomes, http_total, summary, interrupted,
                   exit_code>>

DohLoad ==
    /\ pc = "doh_load"
    /\ LET c == "cloudflare_doh_raw"
       IN  Load(c, "doh", InsertMany(store[c], data.val),
                InsertedAll(store[c], data.val), "speed")

(***************************************************************************)
(* Endpoint 3: speed test (lines 366-475, 532-542)                         *)
(***************************************************************************)
RunSpeed ==
    /\ pc = "speed"
    /\ pc' = IF include_speed THEN "speed_start" ELSE "summary"
    /\ UNCHANGED <<config, storage, success, mr, outcomes, http_total, trail, idx,
                   domain_list, results, item_log, data, clock, summary, run_result,
                   interrupted, exit_code>>

\* extract_speed_data before its loop (lines 376-378)
SpeedStart ==
    /\ pc = "speed_start"
    /\ results' = <<>>
    /\ item_log' = <<>>
    /\ idx' = 1
    /\ trail' = Append(trail, Event("speed", "extract", TRUE))
    /\ pc' = "speed_loop"
    /\ UNCHANGED <<config, storage, success, mr, outcomes, http_total, domain_list,
                   data, clock, summary, run_result, interrupted, exit_code>>

\* the next download is started (lines 380-385); idx is i + 1
SpeedQuery ==
    /\ pc = "speed_loop"
    /\ idx <= speed_iterations
    /\ mr' = MrStart("speed")
    /\ pc' = "speed_wait"
    /\ UNCHANGED <<config, storage, success, outcomes, http_total, trail, idx,
                   domain_list, results, item_log, data, clock, summary, run_result,
                   interrupted, exit_code>>

\* what one iteration adds to speed_results (lines 387-409): nothing when
\* the fetch failed, nothing when the division by elapsed_time = 0 raised
SpeedItemOutcome(response) ==
    IF IsNone(response) THEN "failed"
    ELSE IF response.body.elapsed_ms # 0 THEN "ok"
    ELSE "error"

\* the result dict of one download (lines 394-401)
SpeedSample(i, response, now) ==
    [iteration |-> i,
     timestamp |-> now,
     data_size_bytes |-> response.body.size,
     elapsed_time_seconds |-> response.body.elapsed_ms,
     speed_mbps |-> SpeedOf(response.body.size, response.body.elapsed_ms),
     status_code |-> response.status_code]

\* the rest of the loop body for one iteration (lines 387-409)
SpeedItem ==
    /\ pc = "speed_wait"
    /\ mr.pc = "ret"
    /\ LET o == SpeedItemOutcome(mr.result)
       IN  /\ results' = IF o = "ok"
                         THEN Append(results, SpeedSample(idx, mr.result, clock))
                         ELSE results
           /\ item_log' = Append(item_log, LogEntry(idx, o, mr.result))
           /\ idx' = NextItem(idx, o, speed_iterations)
    /\ mr' = MrIdle
    /\ pc' = "speed_loop"
    /\ UNCHANGED <<config, storage, success, outcomes, http_total, trail, domain_list,
                   data, clock, summary, run_result, interrupted, exit_code>>

\* extract_speed_data returns speed_results; run_etl_pipeline tests it (line 536)
SpeedReturn ==
    /\ pc = "speed_loop"
    /\ idx > speed_iterations
    /\ LET ret == [kind |-> "list", val |-> results]
       IN  /\ data' = ret
           /\ trail' = Append(trail, Event("speed", "extracted", Truthy(ret)))
           /\ IF ~InRun THEN pc' = "done" /\ success' = success
              ELSE IF HasData(ret) THEN pc' = "speed_transform" /\ success' = success
              ELSE pc' = "summary" /\ success' = FALSE
    /\ UNCHANGED <<config, storage, mr, outcomes, http_total, idx, domain_list,
                   results, item_log, clock, summary, run_result, interrupted,
                   exit_code>>

\* transform_speed_data; a None aggregate is not loaded (line 538)
SpeedTransform ==
    /\ pc = "speed_transform"
    /\ \E t \in clock..MaxClock :
          /\ clock' = t
          /\ data' = transform_speed_data(data.val, t)
          /\ pc' = IF IsNone(transform_speed_data(data.val, t))
                   THEN AfterStage("summary")
                   ELSE AfterStage("speed_load")
    /\ trail' = Append(trail, Event("speed", "transform", TRUE))
    /\ UNCHANGED <<config, storage, success, mr, outcomes, http_total, idx,
                   domain_list, results, item_log, summary, run_result, interrupted,
                   exit_code>>

SpeedLoad ==
    /\ pc = "speed_load"
    /\ LET c == "cloudflare_speed_raw"
       IN  Load(c, "speed", InsertOne(store[c], data.val),
                ~HasId(store[c], data.val._id), "summary")

(***************************************************************************)
(* The end of run_etl_pipeline (lines 544-568)                             *)
(***************************************************************************)
\* a variant that prints the collection statistics after every run
SummaryAlways(ok) == TRUE

\* whether _print_summary is called (line 546)
SummaryDue(ok) == ok

\* lines 544-553; fault: count_documents raised inside _print_summary
Summary ==
    /\ pc = "summary"
    /\ IF SummaryDue(success)
       THEN \E fault \in BOOLEAN :
              /\ summary' = IF fault THEN "error" ELSE "emitted"
              /\ late_use' = (late_use \/ client # "open")
       ELSE UNCHANGED <<summary, late_use>>
    /\ run_result' = IF success THEN "True" ELSE "False"
    /\ pc' = ReturnTarget
    /\ UNCHANGED <<config, client, store, opens, connect_ret, success, mr, outcomes,
                   http_total, trail, idx, domain_list, results, item_log, data, clock,
                   interrupted, exit_code>>

(***************************************************************************)
(* main (lines 577-615)                                                    *)
(***************************************************************************)
RunPcs ==
    {"connect", "trace", "trace_start", "trace_wait", "trace_transform", "trace_load",
     "doh", "doh_start", "doh_loop", "doh_wait", "doh_transform", "doh_load",
     "speed", "speed_start", "speed_loop", "speed_wait", "speed_transform",
     "speed_load", "summary"}

\* a KeyboardInterrupt is delivered while run_etl_pipeline runs; no handler
\* of run_etl_pipeline or of the extractors catches it
Interrupt ==
    /\ InRun
    /\ pc \in RunPcs
    /\ interrupted' = TRUE
    /\ run_result' = "raised"
    /\ pc' = RaiseTarget
    /\ DropFrames
    /\ IF pc = "connect"
       THEN \E o \in {"no_server", "no_client"} :
              /\ client' = ClientAfterConnect(client, o)
              /\ opens' = IF o = "no_client" THEN opens ELSE opens + 1
       ELSE UNCHANGED <<client, opens>>
    /\ UNCHANGED <<config, store, connect_ret, late_use, outcomes, http_total, trail,
                   clock, summary, exit_code>>

\* a variant of main without the sys.exit(1) of line 605
ExitCodeWithoutElse(result) == IF result = "raised" THEN 1 ELSE 0

\* the exit code main ends with after run_etl_pipeline returned (lines 597-605)
ExitCodeOf(result) == IF result = "True" THEN 0 ELSE 1

MainAfter ==
    /\ pc = "main_after"
    /\ exit_code' = ExitCodeOf(run_result)
    /\ pc' = "finally"
    /\ UNCHANGED <<config, storage, success, mr, outcomes, http_total, trail, idx,
                   domain_list, results, item_log, data, clock, summary, run_result,
                   interrupted>>

\* except KeyboardInterrupt / except Exception: sys.exit(1) (lines 607-613)
MainExcept ==
    /\ pc = "main_except"
    /\ exit_code' = 1
    /\ pc' = "finally"
    /\ UNCHANGED <<config, storage, success, mr, outcomes, http_total, trail, idx,
                   domain_list, results, item_log, data, clock, summary, run_result,
                   interrupted>>

\* a variant of close() that leaves the client open
ClientLeftOpen(c) == c

\* self.client after close() (lines 570-574)
ClientAfterClose(c) == IF c # "none" THEN "closed" ELSE c

\* finally: connector.close(), then the process ends (lines 614-615)
Close ==
    /\ pc = "finally"
    /\ client' = ClientAfterClose(client)
    /\ pc' = "exited"
    /\ UNCHANGED <<config, store, opens, connect_ret, late_use, success, mr, outcomes,
                   http_total, trail, idx, domain_list, results, item_log, data, clock, summary,
                   run_result, interrupted, exit_code>>

(***************************************************************************)
(* Initial states                                                          *)
(***************************************************************************)
Collections == {"cloudflare_trace_raw", "cloudflare_doh_raw", "cloudflare_speed_raw"}

\* __init__ (lines 68-69) and an empty database
InitStorage ==
    /\ client = "none"
    /\ store = [c \in Collections |-> <<>>]
    /\ opens = 0
    /\ connect_ret = "none"
    /\ late_use = FALSE

InitHistory ==
    /\ outcomes = <<>>
    /\ http_total = 0
    /\ trail = <<>>
    /\ item_log = <<>>
    /\ summary = "none"
    /\ run_result = "none"
    /\ interrupted = FALSE
    /\ exit_code = -1
    /\ clock = 0

\* no frame of run_etl_pipeline or of an extractor exists yet
InitFrames ==
    /\ success = TRUE
    /\ idx = 0
    /\ domain_list = <<>>
    /\ results = <<>>
    /\ data = None

\* make_request called on its own
InitFetch ==
    /\ entry = "fetch"
    /\ retry_attempts \in 0..MaxRetry
    /\ include_trace = FALSE /\ include_doh = FALSE /\ include_speed = FALSE
    /\ dns_domains = None
    /\ speed_iterations = 0
    /\ pc = "fetch"
    /\ InitStorage /\ InitHistory /\ InitFrames
    /\ \E u \in Urls : mr = MrStart(u)

NextFetch == MR_Attempt \/ MR_Exhausted

SpecFetch == InitFetch /\ [][NextFetch]_vars

Domains == {"a.test", "b.test"}

\* the lists over Domains of length at most n
DomainLists(n) == UNION {[1..k -> Domains] : k \in 0..n}

DomainArgs(n) == {None} \cup {[kind |-> "list", val |-> l] : l \in DomainLists(n)}

InitLocals == InitStorage /\ InitHistory /\ InitFrames /\ mr = MrIdle

\* one extractor called on its own, as src/test_endpoints.py does
InitExtract ==
    /\ entry \in {"trace", "doh", "speed"}
    /\ retry_attempts \in 0..MaxRetry
    /\ include_trace = FALSE /\ include_doh = FALSE /\ include_speed = FALSE
    /\ dns_domains \in IF entry = "doh" THEN DomainArgs(MaxDomains) ELSE {None}
    /\ speed_iterations \in IF entry = "speed" THEN 0..MaxIter ELSE {0}
    /\ pc = entry \o "_start"
    /\ InitLocals

NextExtract ==
    \/ MR_Attempt \/ MR_Exhausted
    \/ TraceCall \/ TraceReturn
    \/ DohStart \/ DohQuery \/ DohItem \/ DohReturn
    \/ SpeedStart \/ SpeedQuery \/ SpeedItem \/ SpeedReturn

SpecExtract == InitExtract /\ [][NextExtract]_vars

\* main (lines 589-595), or run_etl_pipeline called with any arguments
Init ==
    /\ entry \in {"main", "run"}
    /\ retry_attempts \in 0..MaxRunRetry
    /\ IF entry = "main"
       THEN /\ include_trace = TRUE /\ include_doh = TRUE /\ include_speed = TRUE
            /\ dns_domains = [kind |-> "list", val |-> Bounded(DefaultDomains, MaxRunItems)]
            /\ speed_iterations = Min(3, MaxRunItems)
       ELSE /\ include_trace \in BOOLEAN
            /\ include_doh \in BOOLEAN
            /\ include_speed \in BOOLEAN
            /\ dns_domains \in IF include_doh THEN DomainArgs(MaxRunItems) ELSE {None}
            /\ speed_iterations \in IF include_speed THEN 0..MaxRunItems
                                    ELSE {Min(3, MaxRunItems)}
    /\ pc = "connect"
    /\ InitLocals

Next ==
    \/ Connect
    \/ MR_Attempt \/ MR_Exhausted
    \/ RunTrace \/ TraceCall \/ TraceReturn \/ TraceTransform \/ TraceLoad
    \/ RunDoh \/ DohStart \/ DohQuery \/ DohItem \/ DohReturn \/ DohTransform \/ DohLoad
    \/ RunSpeed \/ SpeedStart \/ SpeedQuery \/ SpeedItem \/ SpeedReturn
    \/ SpeedTransform \/ SpeedLoad
    \/ Summary \/ Interrupt \/ MainAfter \/ MainExcept \/ Close

Spec == Init /\ [][Next]_vars

(***************************************************************************)
(* The decoder, the transformers and the loaders called on their own, with *)
(* arguments drawn from bounded sets                                       *)
(***************************************************************************)
TextSymbols == {"a", "b", "=", " ", "\n"}

\* the lists over S of at most n elements
ListsOf(S, n) == UNION {[1..k -> S] : k \in 0..n}

\* make_request has just returned a 200 answer with this text (line 153)
MrReturned(text) ==
    [MrStart("trace") EXCEPT !.pc = "ret", !.n_req = 1, !.last = "200",
                             !.result = Response(text)]

\* the mappings extract_trace_data can return
TraceRaws == {ParseTrace(b) : b \in TraceBodies}

StatusCodes == (0 - 1)..MaxStatus

\* decoded DNS answers, with and without the optional fields
DohRaws ==
    {<<>>}
    \cup {[queried_domain |-> d] : d \in Domains}
    \cup {[queried_domain |-> d, Status |-> st] : d \in Domains, st \in StatusCodes}
    \cup {[queried_domain |-> d, Status |-> 0, Question |-> q,
           Answer |-> <<[name |-> d, type |-> 1, TTL |-> 60, data |-> "1.2.3.4"]>>] :
             d \in Domains, q \in {<<>>, <<[name |-> "q", type |-> 28]>>}}

\* len(response.content) and elapsed time of downloads that yield a sample
SampleBodies ==
    {[size |-> sz, elapsed_ms |-> ms] : sz \in {100000, 12345}, ms \in {100, 400, 7}}

\* the lists extract_speed_data can return (lines 394-402), at most n samples
SampleLists(n) ==
    UNION {{[i \in 1..k |-> SpeedSample(i, Response(f[i]), 0)] :
              f \in [1..k -> SampleBodies]} : k \in 0..n}

\* a method of the connector called on its own; control is at pc
InitCall(e, at) ==
    /\ entry = e
    /\ retry_attempts = MaxRetry
    /\ include_trace = FALSE /\ include_doh = FALSE /\ include_speed = FALSE
    /\ dns_domains = None
    /\ speed_iterations = 0
    /\ pc = at
    /\ InitHistory
    /\ success = TRUE /\ idx = 0 /\ domain_list = <<>>

\* extract_trace_data has received the answer it is about to decode
InitDecode ==
    /\ entry = "decode"
    /\ retry_attempts = MaxRetry
    /\ include_trace = FALSE /\ include_doh = FALSE /\ include_speed = FALSE
    /\ dns_domains = None
    /\ speed_iterations = 0
    /\ pc = "trace_wait"
    /\ InitStorage /\ InitFrames
    /\ outcomes = <<>> /\ http_total = 1
    /\ trail = <<Event("trace", "extract", TRUE)>>
    /\ item_log = <<>> /\ summary = "none" /\ run_result = "none"
    /\ interrupted = FALSE /\ exit_code = 0 - 1 /\ clock = 0
    /\ \E text \in ListsOf(TextSymbols, MaxText) : mr = MrReturned(text)

\* transform_trace_data(raw_data) called with any mapping
InitTransformTrace ==
    /\ InitCall("transform_trace", "trace_transform")
    /\ InitStorage
    /\ mr = MrIdle /\ results = <<>>
    /\ \E raw \in TraceRaws : data = [kind |-> "dict", val |-> raw]

\* transform_doh_data(raw_data_list) called with any list
InitTransformDoh ==
    /\ InitCall("transform_doh", "doh_transform")
    /\ InitStorage
    /\ mr = MrIdle
    /\ results \in ListsOf(DohRaws, MaxDomains)
    /\ data = [kind |-> "list", val |-> results]

\* transform_speed_data(raw_data_list) called with any list of samples
InitTransformSpeed ==
    /\ InitCall("transform_speed", "speed_transform")
    /\ InitStorage
    /\ mr = MrIdle
    /\ results \in SampleLists(MaxIter)
    /\ data = [kind |-> "list", val |-> results]

\* the loaders called one after another once connect_mongodb has succeeded
InitLoad ==
    /\ InitCall("load", "load_call")
    /\ client = "open"
    /\ store = [c \in Collections |-> <<>>]
    /\ opens = 1
    /\ connect_ret = "True"
    /\ late_use = FALSE
    /\ mr = MrIdle /\ results = <<>> /\ data = None

\* raw DNS results behind the documents handed to load_doh_data
LoadRaws ==
    {[queried_domain |-> "a.test", Status |-> 0],
     [queried_domain |-> "a.test", Status |-> 3],
     [queried_domain |-> "b.test", Status |-> 0]}

\* number of loader calls made so far
Loads == Cardinality({i \in 1..Len(trail) : trail[i].stage = "load"})

\* the caller passes a transformed document or batch to one of the loaders
\* (lines 514, 526, 538)
LoadCall ==
    /\ entry = "load"
    /\ pc \in {"load_call", "done"}
    /\ Loads < MaxLoads
    /\ \E t \in clock..MaxClock :
          /\ clock' = t
          /\ \/ \E raw \in TraceRaws :
                  /\ data' = [kind |-> "doc", val |-> transform_trace_data(raw, t)]
                  /\ pc' = "trace_load"
             \/ \E l \in ListsOf(LoadRaws, MaxDomains) \ {<<>>} :
                  /\ data' = transform_doh_data(l, t)
                  /\ pc' = "doh_load"
             \/ \E l \in SampleLists(1) \ {<<>>} :
                  /\ data' = transform_speed_data(l, t)
                  /\ pc' = "speed_load"
    /\ UNCHANGED <<config, storage, success, mr, outcomes, http_total, trail, idx,
                   domain_list, results, item_log, summary, run_result, interrupted,
                   exit_code>>

InitUnit ==
    InitDecode \/ InitTransformTrace \/ InitTransformDoh \/ InitTransformSpeed
    \/ InitLoad

NextUnit ==
    \/ TraceReturn \/ TraceTransform \/ DohTransform \/ SpeedTransform
    \/ LoadCall \/ TraceLoad \/ DohLoad \/ SpeedLoad

SpecUnit == InitUnit /\ [][NextUnit]_vars

\* run_etl_pipeline, or transform_speed_data called on its own
InitAggregate == Init \/ InitTransformSpeed

SpecAggregate == InitAggregate /\ [][Next]_vars

(***************************************************************************)
(* Properties of make_request, checked under SpecFetch                     *)
(***************************************************************************)
Non200(h) == {i \in 1..Len(h) : h[i] # "200"}

\* C1: make_request issues at most retry_attempts requests, every attempt
\* that did not answer 200 consumes exactly one attempt, the first 200 ends
\* the call with that response and no further request, and the call returns
\* None exactly when none of the retry_attempts attempts answered 200.
C1_AttemptBudget ==
    /\ mr.n_req = Len(outcomes)
    /\ mr.n_req <= retry_attempts
    /\ mr.attempt = Cardinality(Non200(outcomes))
    /\ \A i \in 1..Len(outcomes) :
          outcomes[i] = "200" =>
            /\ i = Len(outcomes)
            /\ mr.pc = "ret"
            /\ mr.result.kind = "Response" /\ mr.result.status_code = 200
    /\ mr.pc = "ret" =>
          (IsNone(mr.result) <=>
             /\ Len(outcomes) = retry_attempts
             /\ Non200(outcomes) = 1..Len(outcomes))

\* a call that answered 200 after earlier attempts failed
C1_Witness ==
    /\ entry = "fetch" /\ mr.pc = "ret"
    /\ Len(outcomes) >= 2
    /\ outcomes[Len(outcomes)] = "200"
    /\ ~IsNone(mr.result)

\* C2: a 429 counts against the attempt budget: after 429 on attempts 1 and
\* 2, retry_attempts = 2 ends the call with None and no third request, and
\* retry_attempts = 3 with 200 on attempt 3 returns that 200 response.
C2_RateLimitCountsAsAttempt ==
    (Len(outcomes) >= 2 /\ outcomes[1] = "429" /\ outcomes[2] = "429") =>
        /\ retry_attempts = 2 =>
              /\ Len(outcomes) = 2
              /\ mr.pc = "ret" => IsNone(mr.result)
        /\ (retry_attempts = 3 /\ Len(outcomes) = 3 /\ outcomes[3] = "200") =>
              /\ mr.pc = "ret"
              /\ mr.result.kind = "Response" /\ mr.result.status_code = 200

\* 429, 429, 200 with three attempts allowed
C2_Witness ==
    /\ retry_attempts = 3
    /\ outcomes = <<"429", "429", "200">>
    /\ mr.pc = "ret" /\ ~IsNone(mr.result)

(***************************************************************************)
(* Properties of run_etl_pipeline and main, checked under Spec             *)
(***************************************************************************)
Sources == {"trace", "doh", "speed"}

Enabled(src) ==
    CASE src = "trace" -> include_trace
      [] src = "doh" -> include_doh
      [] src = "speed" -> include_speed

Logged(src, stage) == \E i \in 1..Len(trail) : trail[i].src = src /\ trail[i].stage = stage

LoggedOk(src, stage) ==
    \E i \in 1..Len(trail) : trail[i] = Event(src, stage, TRUE)

\* run_etl_pipeline has returned or raised
RunEnded == run_result # "none"

Returned == run_result \in {"True", "False"}

\* C3: when connect_mongodb returns False, run_etl_pipeline returns False
\* at once: no extract, transform or load of any source was invoked, no HTTP
\* request was issued, nothing was stored.
C3_ConnectFailureAborts ==
    connect_ret = "False" =>
        /\ run_result = "False"
        /\ pc \in {"main_after", "finally", "exited", "done"}
        /\ trail = <<>>
        /\ http_total = 0
        /\ mr = MrIdle
        /\ \A c \in Collections : store[c] = <<>>

\* the process ended after a failed connection
C3_Witness == connect_ret = "False" /\ entry = "main" /\ pc = "exited"

\* C4: in every run whose connection succeeded and that was not interrupted,
\* the extraction of each enabled source is attempted, whatever happened to
\* the sources before it.
C4_EverySourceAttempted ==
    (InRun /\ connect_ret = "True" /\ RunEnded /\ ~interrupted) =>
        \A src \in Sources : Enabled(src) => Logged(src, "extract")

\* the source succeeded: its extraction yielded data and its load reported success
SourceOk(src) == LoggedOk(src, "extracted") /\ LoggedOk(src, "load")

AllEnabledOk == connect_ret = "True" /\ \A src \in Sources : Enabled(src) => SourceOk(src)

\* C5: run_etl_pipeline returns True exactly when the connection succeeded
\* and every enabled source succeeded; disabled sources do not count, and
\* with no enabled source the run returns True.
C5_ResultIsConjunction ==
    /\ run_result = "True" => AllEnabledOk
    /\ (RunEnded /\ ~interrupted /\ run_result # "True") => ~AllEnabledOk

\* a run with a disabled source between two sources that succeeded
C5_Witness ==
    /\ entry = "run" /\ run_result = "True"
    /\ include_trace /\ ~include_doh /\ include_speed
    /\ SourceOk("trace") /\ SourceOk("speed")

\* C6 as stated: whenever the connection was established, run_etl_pipeline
\* produces the per-collection summary before it returns, also in runs in
\* which a source failed.
C6_SummaryAfterEveryRun ==
    (Returned /\ connect_ret = "True") => summary # "none"

\* C6 amended: when run_etl_pipeline returns, _print_summary was called
\* exactly if the run returns True (connection established and every enabled
\* source succeeded); a run with a failed source returns without the
\* per-collection summary.
C6_SummaryOnlyOnSuccess ==
    Returned => (summary # "none" <=> run_result = "True")

\* a connected run in which a source failed returned without the summary
C6_Witness ==
    /\ Returned /\ connect_ret = "True"
    /\ \E src \in Sources : Enabled(src) /\ ~SourceOk(src)
    /\ summary = "none"

C8_ClientReleased ==
    /\ pc = "exited" => (client # "open" /\ (opens > 0 => client = "closed"))
    /\ client = "closed" => pc = "exited"
    /\ opens <= 1
    /\ ~late_use

\* the process ended after an interrupt, the opened client is closed
C8_Witness == pc = "exited" /\ interrupted /\ opens = 1 /\ client = "closed"

(***************************************************************************)
(* Properties of the extractors, checked under SpecExtract                 *)
(***************************************************************************)
ExtractorDone == entry \in {"trace", "doh", "speed"} /\ pc = "done"

\* the items the extractor had to go through
ItemsOf == IF entry = "doh" THEN domain_list ELSE [i \in 1..speed_iterations |-> i]

IsOkEntry(e) == e.outcome = "ok"

IsFetched(e) == ~IsNone(e.got)

\* the tag each result carries: queried_domain / iteration
TagOf(r) == IF entry = "doh" THEN r.queried_domain ELSE r.iteration

\* every item was queried, in input order
AllItemsQueried == [i \in 1..Len(item_log) |-> item_log[i].item] = ItemsOf

\* the results are the entries of the log that satisfy Keep, in order and tagged
ResultsAre(kept) ==
    /\ Len(data.val) = Len(kept)
    /\ \A k \in 1..Len(kept) :
          /\ k <= Len(data.val)
          /\ TagOf(data.val[k]) = kept[k].item
          /\ IsFetched(kept[k])
          /\ IF entry = "doh"
             THEN kept[k].got.body.json = "object"
                  /\ data.val[k] = Put(kept[k].got.body.obj, "queried_domain", kept[k].item)
             ELSE data.val[k].data_size_bytes = kept[k].got.body.size

\* C9 as stated: the extractor queries every item and returns, in input
\* order, exactly the results of the items whose fetch succeeded.
C9_ExactlyTheFetched ==
    (ExtractorDone /\ entry # "trace") =>
        /\ AllItemsQueried
        /\ Len(data.val) = Len(SelectSeq(item_log, IsFetched))

\* C9 amended: the extractor queries every item and returns, in input
\* order and tagged with the item, exactly the results of the items whose
\* fetch succeeded and whose response was processed without an error (a
\* JSON object for a domain, a non-zero elapsed time for a download); a
\* failed item is left out and never stops the remaining queries.
C9_ExactlyTheUsable ==
    (ExtractorDone /\ entry # "trace") =>
        /\ AllItemsQueried
        /\ ResultsAre(SelectSeq(item_log, IsOkEntry))
        /\ \A i \in 1..Len(item_log) :
              /\ item_log[i].outcome = "failed" <=> ~IsFetched(item_log[i])
              /\ (item_log[i].outcome = "ok" /\ entry = "doh")
                    => item_log[i].got.body.json = "object"
              /\ (item_log[i].outcome = "error" /\ entry = "doh")
                    => item_log[i].got.body.json # "object"
              /\ (IsFetched(item_log[i]) /\ entry = "speed")
                    => (item_log[i].outcome = "ok" <=> item_log[i].got.body.elapsed_ms # 0)

\* a.test fails, b.test succeeds: a one-element result for b.test
C9_Witness ==
    /\ entry = "doh" /\ pc = "done"
    /\ domain_list = <<"a.test", "b.test">>
    /\ item_log[1].outcome = "failed"
    /\ item_log[2].outcome = "ok"
    /\ Len(data.val) = 1
    /\ data.val[1].queried_domain = "b.test"

AllFetchesFailed ==
    /\ Len(item_log) >= 1
    /\ \A i \in 1..Len(item_log) : ~IsFetched(item_log[i])

\* C10 as stated: every extractor answers None, a value distinct from the
\* empty result, exactly when make_request could not complete its requests.
C10_NoneIffFetchFailed ==
    ExtractorDone => (IsNone(data) <=> AllFetchesFailed)

\* C10 amended: extract_trace_data returns None exactly when make_request
\* returned no response and a (possibly empty) mapping otherwise;
\* extract_doh_data and extract_speed_data never return None: they return a
\* list, which is empty when every fetch failed as it is when there was no
\* item to query.
C10_OnlyTraceReturnsNone ==
    ExtractorDone =>
        IF entry = "trace"
        THEN /\ IsNone(data) <=> AllFetchesFailed
             /\ ~IsNone(data) => data.kind = "dict"
        ELSE /\ data.kind = "list"
             /\ (AllFetchesFailed \/ Len(ItemsOf) = 0) => data.val = <<>>

\* every fetch of extract_doh_data failed and it returned the empty list
C10_Witness ==
    /\ entry = "doh" /\ pc = "done"
    /\ AllFetchesFailed
    /\ data.kind = "list" /\ data.val = <<>>

(***************************************************************************)
(* C11: transform_speed_data returns None, and never an empty document,    *)
(* exactly when the list of samples it was given is empty; and             *)
(* run_etl_pipeline never calls load_speed_data with a None aggregate.     *)
(***************************************************************************)
\* transform_speed_data has returned and its result is still in data
SpeedTransformed ==
    /\ trail # <<>>
    /\ trail[Len(trail)] = Event("speed", "transform", TRUE)

C11_NoneIffNoSamples ==
    /\ SpeedTransformed =>
          /\ IsNone(data) <=> results = <<>>
          /\ ~IsNone(data) =>
                /\ data.kind = "doc"
                /\ data.val.test_count = Len(results)
                /\ data.val.test_count >= 1
    /\ pc = "speed_load" => ~IsNone(data) /\ data.kind = "doc"

\* transform_speed_data called with the empty list has returned None
C11_Witness ==
    /\ entry = "transform_speed"
    /\ pc = "done"
    /\ SpeedTransformed
    /\ results = <<>>
    /\ IsNone(data)

(***************************************************************************)
(* C12: loading a document whose identifier is already stored leaves       *)
(* exactly one document for that identifier, and it carries the field      *)
(* values of the second load; no collection ever holds two documents with  *)
(* the same identifier.                                                    *)
(***************************************************************************)
LoaderPcs == {"trace_load", "doh_load", "speed_load"}

\* a loader is running and returns in this step
LoaderReturns == pc \in LoaderPcs /\ pc' # pc

CollectionAt(p) ==
    CASE p = "trace_load" -> "cloudflare_trace_raw"
      [] p = "doh_load" -> "cloudflare_doh_raw"
      [] OTHER -> "cloudflare_speed_raw"

\* the documents handed to the running loader
Batch == IF data.kind = "list" THEN data.val ELSE <<data.val>>

IdCount(docs, id) == Cardinality({i \in 1..Len(docs) : docs[i]._id = id})

NoDuplicateIds ==
    \A c \in Collections : \A i \in 1..Len(store[c]) : IdCount(store[c], store[c][i]._id) = 1

\* the claim as stated: the second load's values win
C12_SecondLoadWins ==
    [][LoaderReturns =>
         LET c == CollectionAt(pc)
         IN  \A k \in 1..Len(Batch) :
                HasId(store[c], Batch[k]._id) =>
                    /\ IdCount(store'[c], Batch[k]._id) = 1
                    /\ \E i \in 1..Len(store'[c]) : store'[c][i] = Batch[k]]_vars

\* what holds: a loader only appends; a document whose identifier is
\* already stored is rejected, the loader reports failure and the
\* first-loaded document stays as it is; identifiers stay unique
C12_FirstLoadKept ==
    /\ []NoDuplicateIds
    /\ [][LoaderReturns =>
            LET c == CollectionAt(pc)
            IN  /\ Len(store'[c]) >= Len(store[c])
                /\ SubSeq(store'[c], 1, Len(store[c])) = store[c]
                /\ (\E k \in 1..Len(Batch) : HasId(store[c], Batch[k]._id))
                      => trail'[Len(trail')].ok = FALSE]_vars

\* load_trace_data was called twice with documents of one identifier and
\* different field values; the first one is what the collection holds
C12_Witness ==
    /\ entry = "load"
    /\ pc = "done"
    /\ Loads = 2
    /\ data.kind = "doc"
    /\ Len(store["cloudflare_trace_raw"]) = 1
    /\ store["cloudflare_trace_raw"][1]._id = data.val._id
    /\ store["cloudflare_trace_raw"][1] # data.val
    /\ trail[Len(trail)] = Event("trace", "load", FALSE)

(***************************************************************************)
(* C13: when load_doh_data is given a batch in which some documents        *)
(* violate a store constraint (a duplicate identifier), the failure is     *)
(* reported and every valid document of the batch is stored all the same.  *)
(***************************************************************************)
\* document k of the batch can be stored: its identifier is neither in
\* the collection nor carried by an earlier document of the batch
ValidIn(docs, batch, k) ==
    /\ ~HasId(docs, batch[k]._id)
    /\ \A j \in 1..(k - 1) : batch[j]._id # batch[k]._id

C13_ValidDocumentsStored ==
    [][(/\ pc = "doh_load"
        /\ pc' # pc
        /\ \E k \in 1..Len(Batch) : ~ValidIn(store["cloudflare_doh_raw"], Batch, k)
        /\ store'["cloudflare_doh_raw"] = InsertMany(store["cloudflare_doh_raw"], Batch))
       => /\ trail'[Len(trail')].ok = FALSE
          /\ \A k \in 1..Len(Batch) :
                ValidIn(store["cloudflare_doh_raw"], Batch, k)
                  => \E i \in 1..Len(store'["cloudflare_doh_raw"]) :
                        store'["cloudflare_doh_raw"][i] = Batch[k]]_vars

(***************************************************************************)
(* C14: for every response text the decoded mapping has an entry only for  *)
(* the lines containing '=': the key is the trimmed text before the first  *)
(* '=' of the line, the value the trimmed text after it (later '=' stay in *)
(* the value); a line without '=' adds nothing and raises no error.        *)
(***************************************************************************)
\* the text extract_trace_data decoded
DecodedText == item_log[1].got.body

\* the lines of a text: the maximal stretches <<a, b>> free of newlines
LinesOf(text) ==
    {l \in (1..(Len(text) + 1)) \X (0..Len(text)) :
        /\ l[1] <= l[2] + 1
        /\ l[1] = 1 \/ text[l[1] - 1] = "\n"
        /\ l[2] = Len(text) \/ text[l[2] + 1] = "\n"
        /\ \A i \in l[1]..l[2] : text[i] # "\n"}

EqPositions(text, l) == {i \in l[1]..l[2] : text[i] = "="}

FirstEq(text, l) == CHOOSE i \in EqPositions(text, l) : \A j \in EqPositions(text, l) : i <= j

\* text[a..b] without the white space at its two ends
Trimmed(text, a, b) ==
    LET solid == {i \in a..b : ~IsSpace(text[i])}
    IN  IF solid = {} THEN <<>>
        ELSE SubSeq(text, CHOOSE i \in solid : \A j \in solid : i <= j,
                          CHOOSE i \in solid : \A j \in solid : i >= j)

KeyOf(text, l) == Trimmed(text, l[1], FirstEq(text, l) - 1)

ValueOf(text, l) == Trimmed(text, FirstEq(text, l) + 1, l[2])

EqLines(text) == {l \in LinesOf(text) : EqPositions(text, l) # {}}

C14_KeyValueDecoding ==
    (entry = "decode" /\ pc = "done") =>
        /\ data.kind = "dict"
        /\ DOMAIN data.val = {KeyOf(DecodedText, l) : l \in EqLines(DecodedText)}
        /\ \A k \in DOMAIN data.val :
              \E l \in EqLines(DecodedText) :
                 /\ KeyOf(DecodedText, l) = k
                 /\ ValueOf(DecodedText, l) = data.val[k]

\* a text with a line whose value keeps a later '=' and a line without '='
C14_Witness ==
    /\ entry = "decode"
    /\ pc = "done"
    /\ \E k \in DOMAIN data.val : \E i \in 1..Len(data.val[k]) : data.val[k][i] = "="
    /\ \E l \in LinesOf(DecodedText) : l[1] <= l[2] /\ l \notin EqLines(DecodedText)

(***************************************************************************)
(* C15: the label of a DNS status code is NOERROR, FORMERR, SERVFAIL,      *)
(* NXDOMAIN, NOTIMP, REFUSED for 0..5 and UNKNOWN for every other code,    *)
(* the -1 that stands for a missing Status included; transform_doh_data    *)
(* stores exactly this label as response_code.                             *)
(***************************************************************************)
CodeLabels == <<"NOERROR", "FORMERR", "SERVFAIL", "NXDOMAIN", "NOTIMP", "REFUSED">>

LabelOf(code) == IF code \in 0..(Len(CodeLabels) - 1) THEN CodeLabels[code + 1] ELSE "UNKNOWN"

\* the Status of a raw DNS result, -1 when the field is missing
StatusIn(raw) == IF "Status" \in DOMAIN raw THEN raw.Status ELSE 0 - 1

\* transform_doh_data was called on its own and has returned its documents
DohTransformed == entry = "transform_doh" /\ pc = "done" /\ data.kind = "list"

C15_ResponseCodeLabel ==
    DohTransformed =>
        /\ Len(data.val) = Len(results)
        /\ \A i \in 1..Len(results) :
              /\ data.val[i].status = StatusIn(results[i])
              /\ data.val[i].response_code = LabelOf(StatusIn(results[i]))

\* a batch with a result that has no Status, one refused and one whose
\* code is outside the table
C15_Witness ==
    /\ DohTransformed
    /\ \E i \in 1..Len(results) :
          "Status" \notin DOMAIN results[i] /\ data.val[i].response_code = "UNKNOWN"
    /\ \E i \in 1..Len(results) :
          StatusIn(results[i]) \in {5, MaxStatus}

(***************************************************************************)
(* C16: for every non-empty batch of samples the aggregate satisfies       *)
(* speed_variance = max_speed_mbps - min_speed_mbps and                    *)
(* min_speed_mbps <= average_speed_mbps <= max_speed_mbps, its test_count  *)
(* is the number of samples and the samples are kept as an embedded list.  *)
(***************************************************************************)
\* transform_speed_data was called on its own and has returned a document
SpeedAggregated ==
    entry = "transform_speed" /\ pc = "done" /\ SpeedTransformed /\ data.kind = "doc"

TransformPcs == {"trace_transform", "doh_transform", "speed_transform"}

\* a transformer is running and returns (does not raise) in this step
TransformReturns == pc \in TransformPcs /\ pc' # pc /\ run_result' = run_result

ApiAt(p) ==
    CASE p = "trace_transform" -> "Cloudflare Trace"
      [] p = "doh_transform" -> "Cloudflare DoH"
      [] OTHER -> "Cloudflare Speed Test"

Provenance(doc, raw, api) ==
    /\ {"_id", "ingestion_timestamp", "etl_version", "source_api", "raw_data"}
          \subseteq DOMAIN doc
    /\ Len(doc._id) > 0
    /\ doc.ingestion_timestamp = clock'
    /\ doc.etl_version = "2.0"
    /\ doc.source_api = api
    /\ doc.raw_data = raw

C17_ProvenanceFields ==
    [][TransformReturns =>
         IF pc = "doh_transform"
         THEN /\ Len(data'.val) = Len(data.val)
              /\ \A i \in 1..Len(data.val) :
                    Provenance(data'.val[i], data.val[i], ApiAt(pc))
         ELSE ~IsNone(data') => Provenance(data'.val, data.val, ApiAt(pc))]_vars

\* a DNS result without any field was turned into a document
C17_Witness ==
    /\ DohTransformed
    /\ \E i \in 1..Len(results) :
          /\ DOMAIN results[i] = {}
          /\ data.val[i].query_name = "unknown"
          /\ DOMAIN data.val[i].raw_data = {}

(***************************************************************************)
(* C18: a transformer leaves the value it was given as it was: the list    *)
(* the caller holds is the same after the call, and the raw payload the    *)
(* new document refers to under raw_data is the payload as it was before   *)
(* the call.                                                               *)
(***************************************************************************)
C18_InputUnchanged ==
    [][TransformReturns =>
         /\ results' = results
         /\ IF pc = "doh_transform"
            THEN \A i \in 1..Len(data.val) :
                    /\ i \in DOMAIN data'.val
                    /\ DOMAIN data'.val[i].raw_data = DOMAIN data.val[i]
                    /\ \A f \in DOMAIN data.val[i] :
                          data'.val[i].raw_data[f] = data.val[i][f]
            ELSE ~IsNone(data') =>
                    /\ DOMAIN data'.val.raw_data = DOMAIN data.val
                    /\ \A f \in DOMAIN data.val : data'.val.raw_data[f] = data.val[f]]_vars

\* transform_speed_data has aggregated two samples the caller still holds
C18_Witness ==
    /\ SpeedAggregated
    /\ Len(results) = 2
    /\ data.val.raw_data = results
    /\ results[1].iteration = 1 /\ results[2].iteration = 2

(***************************************************************************)
(* C19: run_etl_pipeline handles the sources one at a time in the order    *)
(* trace, DNS, speed test; within a source the transform starts after the  *)
(* extraction has finished and the load after the transform has finished;  *)
(* no stage of a source starts before the previous source is done or has   *)
(* failed; and neither transform nor load runs for a source whose          *)
(* extraction gave no data.                                                *)
(***************************************************************************)
SourceRank(src) == CASE src = "trace" -> 1 [] src = "doh" -> 2 [] OTHER -> 3

StageRank(stage) ==
    CASE stage = "extract" -> 1
      [] stage = "extracted" -> 2
      [] stage = "transform" -> 3
      [] OTHER -> 4

\* a source is over after event e: its extraction gave no data, or its
\* load has returned
Terminal(e) ==
    \/ e.stage = "extracted" /\ ~e.ok
    \/ e.stage = "load"

\* event f may directly follow event e: either f is the next stage of the
\* same source and e did not fail, or e ended its source and f starts the
\* extraction of a later one
MayFollow(e, f) ==
    IF f.stage = "extract"
    THEN Terminal(e) /\ SourceRank(e.src) < SourceRank(f.src)
    ELSE /\ e.src = f.src
         /\ StageRank(f.stage) = StageRank(e.stage) + 1
         /\ f.stage \in {"transform", "load"} => e.ok

C19_StageOrder ==
    /\ trail # <<>> => trail[1].stage = "extract"
    /\ \A i \in 1..(Len(trail) - 1) : MayFollow(trail[i], trail[i + 1])

\* the trace extraction gave nothing, the DNS source went through its three
\* stages and the speed-test source has started
C19_Witness ==
    /\ \E i \in 1..Len(trail) : trail[i] = Event("trace", "extracted", FALSE)
    /\ \E i \in 1..Len(trail) : trail[i] = Event("doh", "load", TRUE)
    /\ \E i \in 1..Len(trail) : trail[i] = Event("speed", "extract", TRUE)

(***************************************************************************)
(* C20: between two consecutive attempts of make_request the loop sleeps   *)
(* retry_delay at least once: exactly once after a non-OK status other     *)
(* than 429, a timeout or a connection error, and twice after a 429.       *)
(***************************************************************************)
\* an attempt has failed and the loop is about to make the next one
BetweenAttempts ==
    /\ mr.pc = "loop"
    /\ mr.n_req >= 1
    /\ mr.attempt < retry_attempts

C20_WaitBetweenAttempts ==
    BetweenAttempts =>
        /\ mr.waits >= 1
        /\ mr.last = "429" => mr.waits = 2
        /\ mr.last \in {"500", "timeout", "connerr"} => mr.waits = 1

\* a rate-limited attempt is followed by the wait before the next attempt
C20_Witness ==
    /\ entry = "fetch"
    /\ BetweenAttempts
    /\ mr.last = "429"
    /\ mr.waits = 2
    /\ Len(outcomes) >= 2

(***************************************************************************)
(* C21: once the attempts are used up make_request returns None without    *)
(* sleeping again: the last iteration of the loop performs no              *)
(* time.sleep(retry_delay), whether it ended in a 429, another non-OK      *)
(* status, a timeout or a connection error.                                *)
(***************************************************************************)
\* make_request has used up its attempts and returned None
GaveUp == mr.pc = "ret" /\ IsNone(mr.result) /\ mr.n_req >= 1

C21_NoSleepAfterLastAttempt == GaveUp => mr.waits = 0

(***************************************************************************)
(* C22: in extract_doh_data and extract_speed_data the inter-item delay    *)
(* (0.5 s per domain, 1 s per iteration) is slept between the fetches of   *)
(* two consecutive items whatever happened to the earlier one: success,    *)
(* fetch failure after the retries, or an error while decoding.            *)
(***************************************************************************)
\* the loop of extract_doh_data / extract_speed_data is running or over
InItemLoop ==
    /\ entry \in {"doh", "speed"}
    /\ pc \in {"doh_loop", "doh_wait", "speed_loop", "speed_wait", "done"}

\* item i was handled and the loop went on to a later item
FollowedByItem(i) ==
    \/ i < Len(item_log)
    \/ pc \in {"doh_wait", "speed_wait"} /\ i = Len(item_log)

C22_DelayBetweenItems ==
    InItemLoop =>
        \A i \in 1..Len(item_log) : FollowedByItem(i) => item_log[i].slept

(***************************************************************************)
(* C23: the documents one call of transform_doh_data returns have pairwise *)
(* distinct _id, for every input list, a list in which one domain was      *)
(* queried more than once included, so that the batch given to             *)
(* load_doh_data never holds two documents with the same _id.              *)
(***************************************************************************)
C23_DistinctIdsInBatch ==
    DohTransformed =>
        \A i, j \in 1..Len(data.val) : i # j => data.val[i]._id # data.val[j]._id

(***************************************************************************)
(* C24: provided every HTTP request and every storage call comes back,     *)
(* every run of run_etl_pipeline terminates: it issues at most             *)
(* retry_attempts x (1 for trace + the number of queried domains +         *)
(* speed_iterations) HTTP requests over the enabled sources, then reaches  *)
(* its final verdict and returns.                                          *)
(***************************************************************************)
\* the number of domains extract_doh_data queries (lines 244-252)
QueriedDomains ==
    IF IsNone(dns_domains) THEN Len(Bounded(DefaultDomains, ItemBound))
    ELSE Len(dns_domains.val)

\* the number of make_request calls of a run over the enabled sources
FetchesOfRun ==
    (IF include_trace THEN 1 ELSE 0)
    + (IF include_doh THEN QueriedDomains ELSE 0)
    + (IF include_speed THEN speed_iterations ELSE 0)

RequestsBounded == http_total <= retry_attempts * FetchesOfRun

\* a run that was not interrupted ends by returning its verdict
EndsWithVerdict == (RunEnded /\ ~interrupted) => Returned

C24_BoundedRunReturns == RequestsBounded /\ EndsWithVerdict

\* the control points of a run in program order
PcOrder ==
    <<{"connect"}, {"trace"}, {"trace_start"}, {"trace_wait"}, {"trace_transform"},
      {"trace_load"}, {"doh"}, {"doh_start"}, {"doh_loop", "doh_wait"},
      {"doh_transform"}, {"doh_load"}, {"speed"}, {"speed_start"},
      {"speed_loop", "speed_wait"}, {"speed_transform"}, {"speed_load"}, {"summary"},
      {"main_after"}, {"main_except"}, {"finally"}, {"exited"}, {"done"}>>

PcRank(p) == CHOOSE i \in 1..Len(PcOrder) : p \in PcOrder[i]

\* a measure of how far the run has got: control point, then loop
\* position, then the requests of the running make_request call
RunMeasure ==
    PcRank(pc) * 10000
    + (IF pc \in {"doh_loop", "doh_wait", "speed_loop", "speed_wait"} THEN idx * 100 ELSE 0)
    + (IF mr.pc = "idle" THEN 0
       ELSE 1 + mr.n_req + (IF mr.pc = "ret" THEN 50 ELSE 0))

\* every step of a run moves it forward, so no run goes on for ever
RunProgress == [][RunMeasure' > RunMeasure]_vars
====
